---- MODULE Spec2Model ----
(***************************************************************************)
(* A model of the CRA statistics pipeline of src/cra_data_pipeline.py      *)
(* (compile_cra_stats and its helpers) and of the permit topic classifier  *)
(* inside clean_permits_data.                                              *)
(*                                                                         *)
(* Conventions of the model                                                *)
(*  - A Python string is a sequence of tokens.  A token is a run of        *)
(*    characters that the program never looks inside (a morpheme of a      *)
(*    phrase, a piece of a column name) or one whitespace character.       *)
(*    str.lower / str.upper act token by token through CaseTable, string   *)
(*    concatenation is \o and `a in b' is Contains.                        *)
(*  - A float is an exact fraction <<n, d>> in lowest terms with d >= 0;   *)
(*    <<0, 0>> is NaN and <<1, 0>>, <<-1, 0>> are the infinities.          *)
(*  - A table (DataFrame) is [cols |-> sequence of column names,           *)
(*    rows |-> sequence of rows], a row being a function from the column   *)
(*    names to values.                                                     *)
(*  - Geometry lives on one axis of the equal-area system (EPSG:26910):    *)
(*    a polygon is the strip [lo, hi] of unit height, so that its area in  *)
(*    square metres is hi - lo, and a point is an abscissa.                *)
(***************************************************************************)
EXTENDS Integers, Sequences, FiniteSets, TLC

VARIABLES
    pc,           \* position of compile_cra_stats
    inp,          \* the arguments of the run and the files on disk
    data,         \* the table compile_cra_stats builds
    permits,      \* the table clean_permits_data returns
    urms_sjoined, \* the URM points joined to the reporting areas
    events,       \* reads, joins and aggregations performed so far, in order
    err,          \* the exception that ended the run, "" when none
    tpc,          \* position of the topic classification of one description
    descr,        \* the description being classified
    variantOf,    \* a description that descr differs from only in letter
                  \* case and in its whitespace runs
    normalized,   \* normalize_desc(descr)
    topic         \* categorize_topic(normalized)

vars == <<pc, inp, data, permits, urms_sjoined, events, err,
          tpc, descr, variantOf, normalized, topic>>

pipeVars == <<pc, inp, data, permits, urms_sjoined, events, err>>
topicVars == <<tpc, descr, variantOf, normalized, topic>>

(***************************************************************************)
(* Bounds of the model.                                                    *)
(***************************************************************************)
MaxChunks == 2
MaxZones == 2       \* hazard zones of one kind
MaxBuildings == 2   \* buildings of the URM inventory
MaxPermits == 2     \* rows of the permits file

(***************************************************************************)
(* Strings.                                                                *)
(***************************************************************************)
\* <<lower, UPPER, Title>> spellings of the tokens that carry letters
CaseTable ==
    { <<"seismic", "SEISMIC", "Seismic">>, <<"ally", "ALLY", "Ally">>,
      <<"earthquake", "EARTHQUAKE", "Earthquake">>, <<"home", "HOME", "Home">>,
      <<"retrofit", "RETROFIT", "Retrofit">>, <<"upgrade", "UPGRADE", "Upgrade">>,
      <<"proof", "PROOF", "Proof">>, <<"damage", "DAMAGE", "Damage">>,
      <<"kitchen", "KITCHEN", "Kitchen">>,
      <<"liquefaction", "LIQUEFACTION", "Liquefaction">>,
      <<"slide", "SLIDE", "Slide">>, <<"area", "AREA", "Area">>,
      <<"eca_overlap", "ECA_OVERLAP", "Eca_overlap">>,
      <<"_acres", "_ACRES", "_Acres">>, <<"_sq_miles", "_SQ_MILES", "_Sq_miles">>,
      <<"_relative", "_RELATIVE", "_Relative">>,
      <<"eca_liquefaction", "ECA_LIQUEFACTION", "Eca_liquefaction">>,
      <<"eca_potential_slide", "ECA_POTENTIAL_SLIDE", "Eca_potential_slide">>,
      <<"confirmed_retrofit", "CONFIRMED_RETROFIT", "Confirmed_retrofit">>,
      <<"pop20", "POP20", "Pop20">> }

WHITESPACE == {" ", "<TAB>", "<NL>"}

\* str.lower on one token
LowerTok(t) ==
    IF \E r \in CaseTable : t \in {r[2], r[3]}
    THEN (CHOOSE r \in CaseTable : t \in {r[2], r[3]})[1]
    ELSE t

\* str.upper on one token
UpperTok(t) ==
    IF \E r \in CaseTable : t \in {r[1], r[3]}
    THEN (CHOOSE r \in CaseTable : t \in {r[1], r[3]})[2]
    ELSE t

TitleTok(t) ==
    IF \E r \in CaseTable : t \in {r[1], r[2]}
    THEN (CHOOSE r \in CaseTable : t \in {r[1], r[2]})[3]
    ELSE t

lower(s) == [i \in 1..Len(s) |-> LowerTok(s[i])]
upper(s) == [i \in 1..Len(s) |-> UpperTok(s[i])]

\* needle in hay
Contains(hay, needle) ==
    \E i \in 0..(Len(hay) - Len(needle)) :
        SubSeq(hay, i + 1, i + Len(needle)) = needle

\* s.startswith(p)
StartsWith(s, p) == Len(p) <= Len(s) /\ SubSeq(s, 1, Len(p)) = p

RECURSIVE split(_)
\* str.split(): the maximal runs of non-whitespace, in order
split(s) ==
    IF s = <<>> THEN <<>>
    ELSE IF Head(s) \in WHITESPACE THEN split(Tail(s))
    ELSE LET n == CHOOSE k \in 1..Len(s) :
                     /\ \A i \in 1..k : s[i] \notin WHITESPACE
                     /\ (k = Len(s) \/ s[k + 1] \in WHITESPACE)
         IN <<SubSeq(s, 1, n)>> \o split(SubSeq(s, n + 1, Len(s)))

RECURSIVE join(_, _)
\* sep.join(words)
join(sep, words) ==
    IF words = <<>> THEN <<>>
    ELSE IF Len(words) = 1 THEN words[1]
    ELSE words[1] \o sep \o join(sep, Tail(words))

(***************************************************************************)
(* Floats.                                                                 *)
(***************************************************************************)
Abs(n) == IF n < 0 THEN -n ELSE n
Sign(n) == IF n < 0 THEN -1 ELSE IF n > 0 THEN 1 ELSE 0

RECURSIVE GCD(_, _)
GCD(a, b) == IF b = 0 THEN a ELSE GCD(b, a % b)

\* the fraction n/d in lowest terms
Frac(n, d) ==
    IF d = 0 THEN <<Sign(n), 0>>
    ELSE LET g == GCD(Abs(n), Abs(d))
         IN <<Sign(d) * (n \div g), Abs(d) \div g>>

Num(n) == <<n, 1>>
NaN == <<0, 0>>
isna(x) == x = NaN
IsFinite(x) == x[2] # 0

\* x / y on floats: NaN propagates, a non-zero number over zero is infinite,
\* zero over zero is NaN
FDiv(x, y) ==
    IF isna(x) \/ isna(y) THEN NaN
    ELSE IF ~IsFinite(x) THEN (IF ~IsFinite(y) THEN NaN
                               ELSE <<x[1] * (IF y[1] < 0 THEN -1 ELSE 1), 0>>)
    ELSE IF ~IsFinite(y) THEN Num(0)
    ELSE IF y[1] = 0 THEN <<Sign(x[1]), 0>>
    ELSE IF x[1] = 0 THEN Num(0)
    ELSE LET g1 == GCD(Abs(x[1]), Abs(y[1]))
             g2 == GCD(x[2], y[2])
         IN Frac((x[1] \div g1) * (y[2] \div g2), (x[2] \div g2) * (y[1] \div g1))

\* x * y on floats
FMul(x, y) ==
    IF isna(x) \/ isna(y) THEN NaN
    ELSE IF ~IsFinite(x) \/ ~IsFinite(y) THEN <<Sign(x[1]) * Sign(y[1]), 0>>
    ELSE IF x[1] = 0 \/ y[1] = 0 THEN Num(0)
    ELSE LET g1 == GCD(Abs(x[1]), y[2])
             g2 == GCD(Abs(y[1]), x[2])
         IN Frac((x[1] \div g1) * (y[1] \div g2), (x[2] \div g2) * (y[2] \div g1))

\* x + y on floats
FAdd(x, y) ==
    IF isna(x) \/ isna(y) THEN NaN
    ELSE IF ~IsFinite(x) THEN (IF ~IsFinite(y) /\ y[1] # x[1] THEN NaN ELSE x)
    ELSE IF ~IsFinite(y) THEN y
    ELSE LET g == GCD(x[2], y[2])
         IN Frac(x[1] * (y[2] \div g) + y[1] * (x[2] \div g), (x[2] \div g) * y[2])

FSub(x, y) == FAdd(x, <<-y[1], y[2]>>)

\* x <= y on floats; false when either is NaN
FLe(x, y) ==
    /\ ~isna(x) /\ ~isna(y)
    /\ IF ~IsFinite(x) THEN x[1] < 0 \/ x = y
       ELSE IF ~IsFinite(y) THEN y[1] > 0
       ELSE LET g == GCD(x[2], y[2])
            IN x[1] * (y[2] \div g) <= y[1] * (x[2] \div g)

\* Series.fillna(v), one cell
fillna(x, v) == IF isna(x) THEN v ELSE x

\* Series.replace({0: np.nan}), one cell
replace_zero_nan(x) == IF x = Num(0) THEN NaN ELSE x

RECURSIVE FSum(_)
\* the sum of a sequence of floats, NaN skipped (pandas sum, skipna)
FSum(xs) ==
    IF xs = <<>> THEN Num(0)
    ELSE FAdd(fillna(Head(xs), Num(0)), FSum(Tail(xs)))

\* 4046.8564224 = 316160658 / 78125 square metres to the acre
SqMPerAcre == <<316160658, 78125>>

\* x / 4046.8564224
DivSqMPerAcre(x) == FDiv(x, SqMPerAcre)

\* 2 589 988.110336 = 640 * 4046.8564224 square metres to the square mile
AcresPerSqMile == 640

\* x / 2_589_988.110336, taken in two exact steps (the numerator of the
\* constant as one fraction is beyond the integers of the model checker)
DivSqMPerSqMile(x) == FDiv(FDiv(x, SqMPerAcre), Num(AcresPerSqMile))

(***************************************************************************)
(* Values that are not strings: pd.NA, and a float NaN read from an empty  *)
(* CSV cell.  A description is a tagged value.                             *)
(***************************************************************************)
Str(s) == [t |-> "str", v |-> s]
pdNA == [t |-> "NA", v |-> <<>>]
floatNaN == [t |-> "float", v |-> <<>>]
isinstance_str(x) == x.t = "str"

(***************************************************************************)
(* The permit topic classifier (inside clean_permits_data).                *)
(***************************************************************************)
RETROFIT_PHRASES ==
    << <<"seismic", " ", "retrofit">>,
       <<"seismic", " ", "upgrade">>,
       <<"seismic", " ", "proof">>,
       <<"seismic", " ", "home", " ", "retrofit">>,
       <<"seismic", " ", "home", " ", "upgrade">>,
       <<"seismic", " ", "home", " ", "proof">>,
       <<"seismic", "ally", " ", "retrofit">>,
       <<"seismic", "ally", " ", "upgrade">>,
       <<"seismic", "ally", " ", "proof">>,
       <<"earthquake", " ", "retrofit">>,
       <<"earthquake", " ", "upgrade">>,
       <<"earthquake", " ", "proof">>,
       <<"earthquake", " ", "home", " ", "retrofit">>,
       <<"earthquake", " ", "home", " ", "upgrade">>,
       <<"earthquake", " ", "home", " ", "proof">> >>

DAMAGE_PHRASES ==
    << <<"seismic", " ", "damage">>,
       <<"earthquake", " ", "damage">> >>

\* normalize_desc without the lower-casing
normalize_desc_keeps_case(description) ==
    IF ~isinstance_str(description) THEN pdNA
    ELSE Str(join(<<" ">>, split(description.v)))

normalize_desc(description) ==
    IF ~isinstance_str(description) THEN pdNA
    ELSE Str(lower(join(<<" ">>, split(description.v))))

\* categorize_topic with the two tests in the other order
categorize_topic_damage_first(desc) ==
    IF ~isinstance_str(desc) THEN "NA"
    ELSE IF \E i \in 1..Len(DAMAGE_PHRASES) : Contains(desc.v, DAMAGE_PHRASES[i])
         THEN "damage"
    ELSE IF \E i \in 1..Len(RETROFIT_PHRASES) : Contains(desc.v, RETROFIT_PHRASES[i])
         THEN "retrofit"
    ELSE "NA"

categorize_topic(desc) ==
    IF ~isinstance_str(desc) THEN "NA"
    ELSE IF \E i \in 1..Len(RETROFIT_PHRASES) : Contains(desc.v, RETROFIT_PHRASES[i])
         THEN "retrofit"
    ELSE IF \E i \in 1..Len(DAMAGE_PHRASES) : Contains(desc.v, DAMAGE_PHRASES[i])
         THEN "damage"
    ELSE "NA"

\* data['Description'].apply(normalize_desc).apply(categorize_topic), one cell
TopicOf(description) == categorize_topic(normalize_desc(description))

(***************************************************************************)
(* Tables.                                                                 *)
(***************************************************************************)
Range(s) == {s[i] : i \in 1..Len(s)}

RECURSIVE Flatten(_)
Flatten(ss) == IF ss = <<>> THEN <<>> ELSE Head(ss) \o Flatten(Tail(ss))

\* column names
CRA_NO == <<"CRA_NO">>
GEN_ALIAS == <<"GEN_ALIAS">>
geometry == <<"geometry">>
WATER == <<"WATER">>
AREA_ACRES == <<"AREA", "_ACRES">>
AREA_SQMI == <<"AREA", "_SQMI">>
index_right == <<"index_right">>

Table(cols, rows) == [cols |-> cols, rows |-> rows]
EmptyTable == Table(<<>>, <<>>)
ColSet(t) == Range(t.cols)
HasCol(t, c) == c \in ColSet(t)
Column(t, c) == [i \in 1..Len(t.rows) |-> t.rows[i][c]]

\* df[c] = vals, vals one value per row
SetColumn(t, c, vals) ==
    Table(IF HasCol(t, c) THEN t.cols ELSE Append(t.cols, c),
          [i \in 1..Len(t.rows) |-> (c :> vals[i]) @@ t.rows[i]])

\* df[c] = v, v a scalar
SetScalar(t, c, v) == SetColumn(t, c, [i \in 1..Len(t.rows) |-> v])

\* df[[c1, ..., cn]]
Project(t, cols) ==
    Table(cols, [i \in 1..Len(t.rows) |-> [c \in Range(cols) |-> t.rows[i][c]]])

\* df.drop(columns = dropped)
DropColumns(t, dropped) ==
    Project(t, SelectSeq(t.cols, LAMBDA c : c \notin dropped))

RECURSIVE SortFloats(_)
\* the floats of a finite set in ascending order
SortFloats(S) ==
    IF S = {} THEN <<>>
    ELSE LET m == CHOOSE x \in S : \A y \in S : FLe(x, y)
         IN <<m>> \o SortFloats(S \ {m})

\* the group keys of df.groupby(key): the distinct non-null keys, sorted
GroupKeys(t, key) ==
    SortFloats({t.rows[i][key] : i \in 1..Len(t.rows)} \ {NaN})

GroupRows(t, key, k) == SelectSeq(t.rows, LAMBDA r : r[key] = k)

\* df.groupby(key).size().reset_index(name = name)
GroupSize(t, key, name) ==
    LET ks == GroupKeys(t, key)
    IN Table(<<key, name>>,
             [i \in 1..Len(ks) |->
                 (key :> ks[i]) @@ (name :> Num(Len(GroupRows(t, key, ks[i]))))])

\* one aggregate of the rows of a group: 'sum' and 'first' of pandas, and
\* the count of the cells equal to 'Yes'
Aggregate(rows, col, how) ==
    CASE how = "sum" -> FSum([i \in 1..Len(rows) |-> rows[i][col]])
      [] how = "first" -> rows[1][col]
      [] how = "count_yes" ->
            Num(Len(SelectSeq(rows, LAMBDA r : r[col] = "Yes")))

\* df.groupby(key).agg({col: how for col in cols}).reset_index(); hows[i] is
\* the aggregate of cols[i]
GroupAggDict(t, key, cols, hows) ==
    LET ks == GroupKeys(t, key)
    IN Table(<<key>> \o cols,
             [i \in 1..Len(ks) |->
                 (key :> ks[i])
                   @@ [c \in Range(cols) |->
                          Aggregate(GroupRows(t, key, ks[i]), c,
                                    hows[CHOOSE j \in 1..Len(cols) : cols[j] = c])]])

\* df.groupby(key).agg(name = (col, how)).reset_index()
GroupAgg(t, key, name, col, how) ==
    LET ks == GroupKeys(t, key)
    IN Table(<<key, name>>,
             [i \in 1..Len(ks) |->
                 (key :> ks[i])
                   @@ (name :> Aggregate(GroupRows(t, key, ks[i]), col, how))])

\* left.merge(right, how = 'inner', on = key): the left rows without a match
\* are dropped
merge_inner(left, right, key) ==
    LET both == (ColSet(left) \cap ColSet(right)) \ {key}
        LName(c) == IF c \in both THEN c \o <<"_x">> ELSE c
        RName(c) == IF c \in both THEN c \o <<"_y">> ELSE c
        rcols == SelectSeq(right.cols, LAMBDA c : c # key)
        LRow(l) == [n \in {LName(c) : c \in ColSet(left)} |->
                       l[CHOOSE c \in ColSet(left) : LName(c) = n]]
        RRow(r) == [n \in {RName(c) : c \in Range(rcols)} |->
                       r[CHOOSE c \in Range(rcols) : RName(c) = n]]
        Matches(l) == SelectSeq(right.rows, LAMBDA r : r[key] = l[key])
    IN Table([i \in 1..Len(left.cols) |-> LName(left.cols[i])]
                 \o [i \in 1..Len(rcols) |-> RName(rcols[i])],
             Flatten([i \in 1..Len(left.rows) |->
                 LET l == left.rows[i]
                     m == Matches(l)
                 IN [j \in 1..Len(m) |-> LRow(l) @@ RRow(m[j])]]))

\* left.merge(right, how = 'left', on = key): every left row once per matching
\* right row, once with nulls when none matches; the columns the two tables
\* share besides the key get the suffixes _x and _y
merge_left(left, right, key) ==
    LET both == (ColSet(left) \cap ColSet(right)) \ {key}
        LName(c) == IF c \in both THEN c \o <<"_x">> ELSE c
        RName(c) == IF c \in both THEN c \o <<"_y">> ELSE c
        rcols == SelectSeq(right.cols, LAMBDA c : c # key)
        LRow(l) == [n \in {LName(c) : c \in ColSet(left)} |->
                       l[CHOOSE c \in ColSet(left) : LName(c) = n]]
        RRow(r) == [n \in {RName(c) : c \in Range(rcols)} |->
                       r[CHOOSE c \in Range(rcols) : RName(c) = n]]
        Nulls == [n \in {RName(c) : c \in Range(rcols)} |-> NaN]
        Matches(l) == SelectSeq(right.rows, LAMBDA r : r[key] = l[key])
    IN Table([i \in 1..Len(left.cols) |-> LName(left.cols[i])]
                 \o [i \in 1..Len(rcols) |-> RName(rcols[i])],
             Flatten([i \in 1..Len(left.rows) |->
                 LET l == left.rows[i]
                     m == Matches(l)
                 IN IF m = <<>> THEN << LRow(l) @@ Nulls >>
                    ELSE [j \in 1..Len(m) |-> LRow(l) @@ RRow(m[j])]]))

(***************************************************************************)
(* Geometry, in the coordinates of the equal-area system.                  *)
(***************************************************************************)
Strip(lo, hi) == [lo |-> lo, hi |-> hi]

\* GeoSeries.area, square metres
area(g) == Num(g.hi - g.lo)

\* predicate = 'within': the point lies in the interior of the polygon
within(x, g) == g.lo < x /\ x < g.hi

\* the polygons of positive area that two polygons share (none or one)
intersection(g, h) ==
    LET lo == IF g.lo > h.lo THEN g.lo ELSE h.lo
        hi == IF g.hi < h.hi THEN g.hi ELSE h.hi
    IN IF lo < hi THEN <<Strip(lo, hi)>> ELSE <<>>

\* gpd.overlay(a, b, how = 'intersection'): one row per pair of polygons that
\* share area, with the columns of both and the shared polygon as geometry
overlay_intersection(a, b) ==
    LET bcols == SelectSeq(b.cols, LAMBDA c : c # geometry /\ c \notin ColSet(a))
        acols == SelectSeq(a.cols, LAMBDA c : c # geometry)
    IN Table(acols \o bcols \o <<geometry>>,
             Flatten([i \in 1..Len(a.rows) |->
                 Flatten([j \in 1..Len(b.rows) |->
                     LET g == intersection(a.rows[i][geometry], b.rows[j][geometry])
                     IN IF g = <<>> THEN <<>>
                        ELSE << (geometry :> g[1])
                                  @@ [c \in Range(acols) |-> a.rows[i][c]]
                                  @@ [c \in Range(bcols) |-> b.rows[j][c]] >>])]))

\* gpd.sjoin(points, polys, how = 'left', predicate = 'within'): every point
\* row once per polygon it lies within, in polygon order, with index_right
\* and the polygon's columns; once with nulls when it lies within none.  A
\* row keeps the index label of its point in the field "index".
sjoin(points, polys) ==
    LET pcols == SelectSeq(polys.cols, LAMBDA c : c # geometry)
        Matches(x) == SelectSeq([j \in 1..Len(polys.rows) |-> j],
                                LAMBDA j : within(x, polys.rows[j][geometry]))
        Nulls == [c \in Range(pcols) \cup {index_right} |-> NaN]
    IN Table(points.cols \o <<index_right>> \o pcols,
             Flatten([i \in 1..Len(points.rows) |->
                 LET l == points.rows[i]
                     m == Matches(l[geometry])
                 IN IF m = <<>> THEN << l @@ Nulls >>
                    ELSE [k \in 1..Len(m) |->
                            l @@ (index_right :> Num(m[k]))
                              @@ [c \in Range(pcols) |-> polys.rows[m[k]][c]]]]))

(***************************************************************************)
(* compile_cra_stats, block by block.  Every block is an operator from the *)
(* tables it reads to [err, tbl]: the exception it raises ("" when none)   *)
(* and the table it produces.                                              *)
(***************************************************************************)
Ok(t) == [err |-> "", tbl |-> t]
Raise(e) == [err |-> e, tbl |-> EmptyTable]

POP20 == <<"POP20">>
population == <<"population">>

\* the order of str on the tokens of the population column names
TokenRank(t) ==
    CASE t = "10" -> 1 [] t = "23" -> 2 [] t = "24" -> 3 [] t = "25" -> 4
      [] t = "POP20" -> 5 [] t = "Pop20" -> 6 [] t = "pop20" -> 7
      [] OTHER -> 8

RECURSIVE StrLess(_, _)
\* a < b on strings
StrLess(a, b) ==
    IF b = <<>> THEN FALSE
    ELSE IF a = <<>> THEN TRUE
    ELSE IF Head(a) = Head(b) THEN StrLess(Tail(a), Tail(b))
    ELSE TokenRank(Head(a)) < TokenRank(Head(b))

\* [c for c in columns if str(c).upper().startswith('POP20')]
PopColumns(cols) == SelectSeq(cols, LAMBDA c : StartsWith(upper(c), POP20))

\* lines 229-238: the population field of the census layer, <<>> for None
pop_field(census_cols) ==
    LET pop_cols == PopColumns(census_cols)
        candidates == SelectSeq(<< <<"POP20", "25">>, <<"POP20", "24">>, <<"POP20", "23">> >>,
                                LAMBDA c : c \in Range(census_cols))
    IN IF Len(pop_cols) > 0
       THEN CHOOSE c \in Range(pop_cols) :
                \A d \in Range(pop_cols) : d = c \/ StrLess(d, c)
       ELSE IF candidates # <<>> THEN candidates[1]
       ELSE <<>>

\* lines 227-252: the census blocks summed per CRA_NO
aggregate_census(census_gdf) ==
    LET cols == census_gdf.cols
        preserve_fields == SelectSeq(<< <<"CPOP_FROM_20">>, <<"PCPOP_FROM_20">> >>,
                                     LAMBDA f : f \in Range(cols))
        pf == pop_field(cols)
        sums == preserve_fields \o (IF pf # <<>> THEN <<pf>> ELSE <<>>)
        firsts == IF GEN_ALIAS \in Range(cols) THEN <<GEN_ALIAS>> ELSE <<>>
        agg_cols == sums \o firsts
        agg_hows == [i \in 1..Len(agg_cols) |->
                        IF i <= Len(sums) THEN "sum" ELSE "first"]
    IN IF CRA_NO \notin Range(cols)
       THEN Raise("ValueError: Expected census data to contain a CRA_NO column")
       ELSE IF agg_cols = <<>>
       THEN Raise("ValueError: No objects to concatenate")
       ELSE Ok(GroupAggDict(census_gdf, CRA_NO, agg_cols, agg_hows))

\* lines 254-258: the reporting areas that are not water
land_rows(cras) ==
    IF HasCol(cras, WATER)
    THEN DropColumns(Table(cras.cols,
                           SelectSeq(cras.rows, LAMBDA r : r[WATER] = Num(0))),
                     {WATER})
    ELSE cras

\* lines 260-263: the land area of each reporting area, from its geometry
\* when the layer does not carry it
with_area_columns(cras_land) ==
    IF ~HasCol(cras_land, AREA_ACRES) \/ ~HasCol(cras_land, AREA_SQMI)
    THEN LET areas == Column(cras_land, geometry)
             sqmi == SetColumn(cras_land, AREA_SQMI,
                        [i \in 1..Len(areas) |-> DivSqMPerSqMile(area(areas[i]))])
         IN SetColumn(sqmi, AREA_ACRES,
                        [i \in 1..Len(areas) |-> DivSqMPerAcre(area(areas[i]))])
    ELSE cras_land

\* lines 254-265: the land reporting areas with the census sums merged on
merge_census(cras, census_agg) ==
    merge_left(with_area_columns(land_rows(cras)), census_agg, CRA_NO)

overlap_sq_meters == <<"overlap_sq_meters">>

\* the validation that lets the empty prefix through
check_prefix_but_empty(prefix) ==
    IF upper(prefix) = <<"AREA">> THEN "ValueError: Prefix cannot be AREA" ELSE ""

\* lines 373-376: the exception the prefix is refused with, "" when it is
\* accepted
check_prefix(prefix) ==
    IF prefix = <<>> THEN "ValueError: Prefix cannot be empty"
    ELSE IF upper(prefix) = <<"AREA">> THEN "ValueError: Prefix cannot be AREA"
    ELSE ""

\* _find_eca_cra_overlaps(cras, ecas, prefix)
find_eca_cra_overlaps(cras, ecas, prefix) ==
    IF check_prefix(prefix) # "" THEN Raise(check_prefix(prefix))
    ELSE
      LET acres == upper(prefix \o <<"_acres">>)
          sq_miles == upper(prefix \o <<"_sq_miles">>)
          relative == upper(prefix \o <<"_relative">>)
          overlaid == overlay_intersection(cras, ecas)
          measured == SetColumn(overlaid, overlap_sq_meters,
                         [i \in 1..Len(overlaid.rows) |-> area(overlaid.rows[i][geometry])])
          summed == GroupAgg(measured, CRA_NO, overlap_sq_meters, overlap_sq_meters, "sum")
          in_acres == SetColumn(summed, acres,
                         [i \in 1..Len(summed.rows) |->
                             DivSqMPerAcre(summed.rows[i][overlap_sq_meters])])
          in_sq_miles == SetColumn(in_acres, sq_miles,
                         [i \in 1..Len(summed.rows) |->
                             DivSqMPerSqMile(summed.rows[i][overlap_sq_meters])])
          merged == merge_left(cras, DropColumns(in_sq_miles, {overlap_sq_meters}), CRA_NO)
      IN Ok(SetColumn(merged, relative,
               [i \in 1..Len(merged.rows) |->
                   FDiv(merged.rows[i][acres], merged.rows[i][AREA_ACRES])]))

\* `path and os.path.exists(path)' for an optional layer: the argument is a
\* path and the file is there
Supplied(layer) == layer.status = "present"

\* lines 267-279: the three overlap columns of one hazard kind, computed from
\* the layer when it is supplied and zero otherwise
hazard_columns(tbl, layer, prefix) ==
    IF Supplied(layer)
    THEN find_eca_cra_overlaps(tbl, layer.tbl, prefix)
    ELSE Ok(SetScalar(SetScalar(SetScalar(tbl,
                upper(prefix \o <<"_acres">>), Num(0)),
                upper(prefix \o <<"_sq_miles">>), Num(0)),
                upper(prefix \o <<"_relative">>), Num(0)))

n_urm == <<"n_urm">>
risk_weighted == <<"risk_weighted">>
vuln_weight == <<"vuln_weight">>
n_urm_liq == <<"n_urm_liq">>
n_urm_slide == <<"n_urm_slide">>
n_urm_retrofit == <<"n_urm_retrofit">>
risk_score == <<"risk_score">>
urm_retrofit_share == <<"urm_retrofit_share">>
VULNERABILITY_CLASSIFICATION == <<"VULNERABILITY_CLASSIFICATION">>
ECA_LIQUEFACTION == <<"ECA_LIQUEFACTION">>
ECA_POTENTIAL_SLIDE == <<"ECA_POTENTIAL_SLIDE">>
CONFIRMED_RETROFIT == <<"CONFIRMED_RETROFIT">>

\* f'n_urm_{col.lower()}'
n_urm_of(col) == <<"n_urm_">> \o lower(col)

\* the weights with those of High and Critical exchanged
vuln_weights_swapped(class) ==
    CASE class = "Medium" -> Num(1)
      [] class = "High" -> Num(3)
      [] class = "Critical" -> Num(2)
      [] OTHER -> Num(0)

\* vuln_weights, with the fillna(0) of the classes it does not list
vuln_weights(class) ==
    CASE class = "Medium" -> Num(1)
      [] class = "High" -> Num(2)
      [] class = "Critical" -> Num(3)
      [] OTHER -> Num(0)

\* line 283: the buildings joined to the reporting areas of the table
urm_sjoin(data_tbl, urms) == sjoin(urms, Project(data_tbl, <<CRA_NO, geometry>>))

RECURSIVE urm_flag_counts(_, _, _)
\* lines 293-296: the loop over the three flag columns, merging the count of
\* 'Yes' per reporting area for each column the joined buildings carry
urm_flag_counts(counts, joined, flag_cols) ==
    IF flag_cols = <<>> THEN counts
    ELSE LET col == Head(flag_cols)
             merged == IF HasCol(joined, col)
                       THEN merge_left(counts,
                                GroupAgg(joined, CRA_NO, n_urm_of(col), col, "count_yes"),
                                CRA_NO)
                       ELSE counts
         IN urm_flag_counts(merged, joined, Tail(flag_cols))

\* lines 284-296: the building counts per reporting area
urm_counts(joined) ==
    LET sizes == GroupSize(joined, CRA_NO, n_urm)
        weighted ==
            IF HasCol(joined, VULNERABILITY_CLASSIFICATION)
            THEN LET w == SetColumn(joined, vuln_weight,
                             [i \in 1..Len(joined.rows) |->
                                 vuln_weights(joined.rows[i][VULNERABILITY_CLASSIFICATION])])
                 IN merge_left(sizes,
                        GroupAgg(w, CRA_NO, risk_weighted, vuln_weight, "sum"), CRA_NO)
            ELSE SetScalar(sizes, risk_weighted, Num(0))
    IN urm_flag_counts(weighted, joined,
           <<ECA_LIQUEFACTION, ECA_POTENTIAL_SLIDE, CONFIRMED_RETROFIT>>)

\* data[c].fillna(0) of a whole column
FillColumn(t, c) ==
    SetColumn(t, c, [i \in 1..Len(t.rows) |-> fillna(t.rows[i][c], Num(0))])

\* data.get(c, 0) with its fillna(0) when the column is there, the scalar 0
\* when it is not, stored as column `as'
GetOrZero(t, c, as) ==
    IF HasCol(t, c)
    THEN SetColumn(t, as, [i \in 1..Len(t.rows) |-> fillna(t.rows[i][c], Num(0))])
    ELSE SetScalar(t, as, Num(0))

\* lines 281-317: the URM columns of the table
urm_columns(data_tbl, urm_layer) ==
    IF Supplied(urm_layer)
    THEN LET joined == urm_sjoin(data_tbl, urm_layer.tbl)
             merged == merge_left(data_tbl, urm_counts(joined), CRA_NO)
             filled == FillColumn(FillColumn(merged, n_urm), risk_weighted)
             confirmed == GetOrZero(filled, n_urm_of(CONFIRMED_RETROFIT),
                                    n_urm_of(CONFIRMED_RETROFIT))
             liq == GetOrZero(confirmed, n_urm_of(ECA_LIQUEFACTION), n_urm_liq)
             slide == GetOrZero(liq, n_urm_of(ECA_POTENTIAL_SLIDE), n_urm_slide)
             retro == GetOrZero(slide, n_urm_of(CONFIRMED_RETROFIT), n_urm_retrofit)
             scored == SetColumn(retro, risk_score,
                          [i \in 1..Len(retro.rows) |->
                              LET r == retro.rows[i]
                              IN FAdd(FAdd(r[risk_weighted],
                                           FMul(Frac(1, 2), fillna(r[n_urm_liq], Num(0)))),
                                      FMul(Frac(1, 2), fillna(r[n_urm_slide], Num(0))))])
         IN SetColumn(scored, urm_retrofit_share,
                [i \in 1..Len(scored.rows) |->
                    FDiv(scored.rows[i][n_urm_retrofit],
                         replace_zero_nan(scored.rows[i][n_urm]))])
    ELSE SetScalar(SetScalar(SetScalar(SetScalar(SetScalar(SetScalar(SetScalar(data_tbl,
             n_urm, Num(0)), risk_weighted, Num(0)), n_urm_liq, Num(0)),
             n_urm_slide, Num(0)), n_urm_retrofit, Num(0)), risk_score, Num(0)),
             urm_retrofit_share, NaN)

(***************************************************************************)
(* The permits.  Of the columns clean_permits_data keeps, the table holds  *)
(* the four the statistics depend on; a point is the abscissa held in      *)
(* Longitude.                                                              *)
(***************************************************************************)
PermitNum == <<"PermitNum">>
Description == <<"Description">>
Latitude == <<"Latitude">>
Longitude == <<"Longitude">>
TOPIC == <<"topic">>
liquefaction_prone == <<"liquefaction_prone">>
slide_prone == <<"slide_prone">>
is_in_cra == <<"is_in_cra">>
CRA_NAME == <<"CRA_NAME">>
BLDG_PERMIT_COUNT == <<"BLDG_PERMIT_COUNT">>
RETROFIT_PERMIT_COUNT == <<"RETROFIT_PERMIT_COUNT">>

\* gdf_points[flag] = ~join.index_right.isna(): the join has the index of
\* the points, and the assignment raises when a label of it is repeated
assign_from_join(gdf_points, joined, flag) ==
    IF Len(joined.rows) # Len(gdf_points.rows)
    THEN Raise("ValueError: cannot reindex on an axis with duplicate labels")
    ELSE Ok(SetColumn(gdf_points, flag,
               [i \in 1..Len(joined.rows) |-> ~isna(joined.rows[i][index_right])]))

\* _add_eca_status_columns(point_data, liquefaction_areas, slide_areas, cras)
add_eca_status_columns(point_data, liquefaction_areas, slide_areas, cras) ==
    LET gdf_points == SetColumn(point_data, geometry,
                         [i \in 1..Len(point_data.rows) |-> point_data.rows[i][Longitude][1]])
        join1 == sjoin(gdf_points, liquefaction_areas)
        with1 == assign_from_join(gdf_points, join1, liquefaction_prone)
        join2 == sjoin(with1.tbl, slide_areas)
        with2 == assign_from_join(with1.tbl, join2, slide_prone)
        join3 == sjoin(with2.tbl, Project(cras, <<CRA_NO, GEN_ALIAS, geometry>>))
        with3 == assign_from_join(with2.tbl, join3, is_in_cra)
    IN IF with1.err # "" THEN with1
       ELSE IF with2.err # "" THEN with2
       ELSE IF with3.err # "" THEN with3
       ELSE Ok(DropColumns(
                  SetColumn(SetColumn(with3.tbl, CRA_NO, Column(join3, CRA_NO)),
                            CRA_NAME, Column(join3, GEN_ALIAS)),
                  {geometry}))

\* gpd.read_file(path) of a layer whose path was given
read_file(layer) ==
    IF layer.status = "present" THEN Ok(layer.tbl)
    ELSE Raise("DataSourceError: No such file or directory")

\* clean_permits_data(data_path, data_file_fmt, liquefaction_areas_path =,
\* slide_areas_path =, cras_path =) on a file that exists
clean_permits_data(raw, data_file_fmt, liq_layer, slide_layer, cras_layer) ==
    IF data_file_fmt \notin {"csv", "json"}
    THEN Raise("ValueError: Expected one of csv or json for data_file_fmt")
    ELSE
      LET kept == SelectSeq(raw.rows, LAMBDA r :
                      ~isna(r[PermitNum]) /\ ~isna(r[Latitude]) /\ ~isna(r[Longitude]))
          topics == SetColumn(Table(raw.cols, kept), TOPIC,
                       [i \in 1..Len(kept) |-> TopicOf(kept[i][Description])])
          liquefaction_areas == read_file(liq_layer)
          slide_areas == read_file(slide_layer)
          cras == read_file(cras_layer)
      IN IF ~(liq_layer.status = "none" \/ slide_layer.status = "none"
                \/ cras_layer.status = "none")
         THEN IF liquefaction_areas.err # "" THEN liquefaction_areas
              ELSE IF slide_areas.err # "" THEN slide_areas
              ELSE IF cras.err # "" THEN cras
              ELSE add_eca_status_columns(topics, liquefaction_areas.tbl,
                                          slide_areas.tbl, cras.tbl)
         ELSE Ok(topics)

\* _add_cra_permit_counts with the permits of other topics only in
\* BLDG_PERMIT_COUNT, a variant the source does not have
add_cra_permit_counts_others_only(cras, permits_tbl) ==
    IF ~HasCol(permits_tbl, CRA_NO) THEN Raise("KeyError: CRA_NO")
    ELSE
      LET permits_by_cra ==
              GroupSize(Table(permits_tbl.cols,
                              SelectSeq(permits_tbl.rows, LAMBDA r : r[TOPIC] # "retrofit")),
                        CRA_NO, BLDG_PERMIT_COUNT)
          retrofits_by_cra ==
              GroupSize(Table(permits_tbl.cols,
                              SelectSeq(permits_tbl.rows, LAMBDA r : r[TOPIC] = "retrofit")),
                        CRA_NO, RETROFIT_PERMIT_COUNT)
          new_cras == merge_left(merge_left(cras, permits_by_cra, CRA_NO),
                                 retrofits_by_cra, CRA_NO)
      IN Ok(FillColumn(FillColumn(new_cras, BLDG_PERMIT_COUNT), RETROFIT_PERMIT_COUNT))

\* _add_cra_permit_counts(cras, permits)
add_cra_permit_counts(cras, permits_tbl) ==
    IF ~HasCol(permits_tbl, CRA_NO) THEN Raise("KeyError: CRA_NO")
    ELSE
      LET permits_by_cra == GroupSize(permits_tbl, CRA_NO, BLDG_PERMIT_COUNT)
          retrofits_by_cra ==
              GroupSize(Table(permits_tbl.cols,
                              SelectSeq(permits_tbl.rows, LAMBDA r : r[TOPIC] = "retrofit")),
                        CRA_NO, RETROFIT_PERMIT_COUNT)
          new_cras == merge_left(merge_left(cras, permits_by_cra, CRA_NO),
                                 retrofits_by_cra, CRA_NO)
      IN Ok(FillColumn(FillColumn(new_cras, BLDG_PERMIT_COUNT), RETROFIT_PERMIT_COUNT))

\* lines 320-321: the call of clean_permits_data with the arguments of the run
cleaned_permits(args) ==
    clean_permits_data(args.permits.tbl, args.permits_file_fmt,
                       args.liquefaction_areas, args.slide_areas, args.cras)

\* lines 319-325: the two permit counts of the table
permit_columns(data_tbl, args) ==
    IF Supplied(args.permits)
    THEN IF cleaned_permits(args).err # "" THEN cleaned_permits(args)
         ELSE add_cra_permit_counts(data_tbl, cleaned_permits(args).tbl)
    ELSE Ok(SetScalar(SetScalar(data_tbl, BLDG_PERMIT_COUNT, Num(0)),
                      RETROFIT_PERMIT_COUNT, Num(0)))

retrofit_share_permits == <<"retrofit_share_permits">>
retrofit_rate_per_10k == <<"retrofit_rate_per_10k">>
risk_index == <<"risk_index">>
mitigation_index == <<"mitigation_index">>
GEN_ALIAS_x == GEN_ALIAS \o <<"_x">>
GEN_ALIAS_y == GEN_ALIAS \o <<"_y">>

\* lines 327-333: the population column of the table
pop_col(cols) ==
    LET candidates == SelectSeq(<< <<"POP20", "25">>, <<"POP20", "24">> >> \o PopColumns(cols),
                                LAMBDA c : c \in Range(cols))
    IN IF candidates # <<>> THEN candidates[1] ELSE population

\* s.max() and s.min() of a column without nulls
FMax(xs) == CHOOSE x \in Range(xs) : \A y \in Range(xs) : FLe(y, x)
FMin(xs) == CHOOSE x \in Range(xs) : \A y \in Range(xs) : FLe(x, y)

\* minmax without the test for a constant column
minmax_unguarded(xs) ==
    [i \in 1..Len(xs) |-> FDiv(FSub(xs[i], FMin(xs)), FSub(FMax(xs), FMin(xs)))]

\* minmax(s), lines 343-347
minmax(xs) ==
    IF xs = <<>> THEN xs
    ELSE IF FMax(xs) = FMin(xs)
    THEN [i \in 1..Len(xs) |-> FMul(xs[i], Num(0))]
    ELSE [i \in 1..Len(xs) |-> FDiv(FSub(xs[i], FMin(xs)), FSub(FMax(xs), FMin(xs)))]

\* the share taken as 0 where there is no permit
permit_share_or_zero(retrofits, bldgs) ==
    IF bldgs = Num(0) THEN Num(0) ELSE FDiv(retrofits, bldgs)

\* the rate without the replacement of the zero population
rate_per_10k_unguarded(retrofits, pop) == FMul(FDiv(retrofits, pop), Num(10000))

\* line 340: retrofit permits over building permits, the zero count replaced
\* by NaN
permit_share(retrofits, bldgs) == FDiv(retrofits, replace_zero_nan(bldgs))

\* line 341: retrofit permits per 10,000 inhabitants, the zero population
\* replaced by NaN
rate_per_10k(retrofits, pop) ==
    FMul(FDiv(retrofits, replace_zero_nan(pop)), Num(10000))

\* lines 327-350: population, the two permit ratios and the two indices
derived_columns(data_tbl) ==
    LET pc_ == pop_col(data_tbl.cols)
        n == Len(data_tbl.rows)
        pop == IF HasCol(data_tbl, pc_)
               THEN SetColumn(data_tbl, population, Column(data_tbl, pc_))
               ELSE SetScalar(data_tbl, population, NaN)
        share == SetColumn(pop, retrofit_share_permits,
                    [i \in 1..n |-> permit_share(pop.rows[i][RETROFIT_PERMIT_COUNT],
                                                 pop.rows[i][BLDG_PERMIT_COUNT])])
        rate == SetColumn(share, retrofit_rate_per_10k,
                    [i \in 1..n |-> rate_per_10k(share.rows[i][RETROFIT_PERMIT_COUNT],
                                                 share.rows[i][population])])
        risk == SetColumn(rate, risk_index,
                    minmax([i \in 1..n |-> fillna(rate.rows[i][risk_score], Num(0))]))
    IN SetColumn(risk, mitigation_index,
           minmax([i \in 1..n |->
                      FAdd(fillna(risk.rows[i][retrofit_rate_per_10k], Num(0)),
                           fillna(risk.rows[i][urm_retrofit_share], Num(0)))]))

\* lines 352-361: one GEN_ALIAS column out of the suffixed ones of the merge
gen_alias_fix(data_tbl) ==
    LET n == Len(data_tbl.rows)
    IN IF HasCol(data_tbl, GEN_ALIAS) THEN data_tbl
       ELSE IF HasCol(data_tbl, GEN_ALIAS_y) /\ HasCol(data_tbl, GEN_ALIAS_x)
       THEN DropColumns(
                SetColumn(data_tbl, GEN_ALIAS,
                    [i \in 1..n |-> IF isna(data_tbl.rows[i][GEN_ALIAS_y])
                                    THEN data_tbl.rows[i][GEN_ALIAS_x]
                                    ELSE data_tbl.rows[i][GEN_ALIAS_y]]),
                {GEN_ALIAS_x, GEN_ALIAS_y})
       ELSE IF HasCol(data_tbl, GEN_ALIAS_y)
       THEN DropColumns(SetColumn(data_tbl, GEN_ALIAS, Column(data_tbl, GEN_ALIAS_y)),
                        {GEN_ALIAS_y})
       ELSE IF HasCol(data_tbl, GEN_ALIAS_x)
       THEN DropColumns(SetColumn(data_tbl, GEN_ALIAS, Column(data_tbl, GEN_ALIAS_x)),
                        {GEN_ALIAS_x})
       ELSE data_tbl

\* compile_cra_stats(...) as a whole: the table it returns or the exception
\* it raises
compile_cra_stats(args) ==
    LET census == aggregate_census(args.seattle_census_data)
        merged == merge_census(args.cras.tbl, census.tbl)
        liq == hazard_columns(merged, args.liquefaction_areas, <<"liquefaction">>)
        slide == hazard_columns(liq.tbl, args.slide_areas, <<"slide">>)
        urm == urm_columns(slide.tbl, args.urm)
        counted == permit_columns(urm, args)
    IN IF census.err # "" THEN census
       ELSE IF liq.err # "" THEN liq
       ELSE IF slide.err # "" THEN slide
       ELSE IF counted.err # "" THEN counted
       ELSE Ok(gen_alias_fix(derived_columns(counted.tbl)))

(***************************************************************************)
(* The arguments of a run of compile_cra_stats and the files behind them.  *)
(* An optional layer is [status, tbl]: "none" when the path argument is    *)
(* None, "missing" when the path names no file, "present" with the table   *)
(* the file holds.                                                         *)
(***************************************************************************)
Layer(tbl) == [status |-> "present", tbl |-> tbl]
NoPath == [status |-> "none", tbl |-> EmptyTable]
NoFile == [status |-> "missing", tbl |-> EmptyTable]

SeqsUpTo(S, n) == UNION { [1..k -> S] : k \in 0..n }

Strips == {Strip(0, 32), Strip(32, 64), Strip(0, 64)}
Abscissas == {16, 32, 48, 80}

CraRow(no, name, g) == (CRA_NO :> Num(no)) @@ (GEN_ALIAS :> <<name>>) @@ (geometry :> g)

\* two reporting areas side by side
CrasAdjacent ==
    Table(<<CRA_NO, GEN_ALIAS, geometry>>,
          << CraRow(1, "A", Strip(0, 32)), CraRow(2, "B", Strip(32, 64)) >>)

\* the second of them water
CrasWithWater ==
    Table(<<CRA_NO, GEN_ALIAS, WATER, geometry>>,
          << CraRow(1, "A", Strip(0, 32)) @@ (WATER :> Num(0)),
             CraRow(2, "B", Strip(32, 64)) @@ (WATER :> Num(1)) >>)

\* two reporting areas that overlap
CrasOverlapping ==
    Table(<<CRA_NO, GEN_ALIAS, geometry>>,
          << CraRow(1, "A", Strip(0, 64)), CraRow(2, "B", Strip(32, 64)) >>)

\* the layer carrying its own area columns
CrasWithAreas ==
    Table(<<CRA_NO, GEN_ALIAS, AREA_ACRES, AREA_SQMI, geometry>>,
          [i \in 1..2 |->
              LET r == CrasAdjacent.rows[i]
              IN r @@ (AREA_ACRES :> DivSqMPerAcre(area(r[geometry])))
                   @@ (AREA_SQMI :> DivSqMPerSqMile(area(r[geometry])))])

\* three reporting areas side by side
CrasThree ==
    Table(<<CRA_NO, GEN_ALIAS, geometry>>,
          << CraRow(1, "A", Strip(0, 32)), CraRow(2, "B", Strip(32, 64)),
             CraRow(3, "C", Strip(64, 96)) >>)

\* the layer carrying a population column of its own
CrasWithPop ==
    Table(<<CRA_NO, GEN_ALIAS, <<"POP20", "24">>, geometry>>,
          [i \in 1..2 |-> CrasAdjacent.rows[i] @@ (<<"POP20", "24">> :> Num(999))])

CrasLayers == {CrasAdjacent, CrasWithWater, CrasOverlapping, CrasWithAreas, CrasThree}

ZoneTable(zones) == Table(<<geometry>>, [i \in 1..Len(zones) |-> (geometry :> zones[i])])
HazardTables == { ZoneTable(z) : z \in SeqsUpTo(Strips, MaxZones) }
BasicHazard == ZoneTable(<<Strip(0, 32)>>)
BasicHazardLayers == {NoPath, NoFile, Layer(BasicHazard)}

CensusRow(no, pop) == (CRA_NO :> Num(no)) @@ (<<"POP20", "25">> :> Num(pop))
BasicCensus ==
    Table(<<CRA_NO, <<"POP20", "25">> >>,
          << CensusRow(1, 100), CensusRow(1, 50), CensusRow(2, 10) >>)
CensusTables ==
    { BasicCensus,
      Table(<<CRA_NO, GEN_ALIAS, <<"POP20", "23">>, <<"POP20", "24">> >>,
            << (CRA_NO :> Num(1)) @@ (GEN_ALIAS :> <<"A">>)
                 @@ (<<"POP20", "23">> :> Num(100)) @@ (<<"POP20", "24">> :> Num(110)),
               (CRA_NO :> Num(3)) @@ (GEN_ALIAS :> <<"C">>)
                 @@ (<<"POP20", "23">> :> Num(5)) @@ (<<"POP20", "24">> :> Num(0)) >>),
      Table(<<CRA_NO, <<"CPOP_FROM_20">> >>,
            << (CRA_NO :> Num(1)) @@ (<<"CPOP_FROM_20">> :> Num(7)) >>),
      Table(<<CRA_NO, <<"pop20", "10">> >>,
            << (CRA_NO :> Num(2)) @@ (<<"pop20", "10">> :> Num(0)) >>),
      Table(<<CRA_NO, <<"POP20", "25">> >>, << CensusRow(1, 0), CensusRow(2, 20) >>),
      Table(<<CRA_NO>>, << (CRA_NO :> Num(1)) >>),
      Table(<< <<"POP20", "25">> >>, << (<<"POP20", "25">> :> Num(100)) >>) }

\* a building: where it stands and what the inventory says of it
BuildingProfiles ==
    { <<"High", "Yes", "No", "Yes">>, <<"Medium", "No", "Yes", "No">>,
      <<"Critical", "Yes", "Yes", "No">>, <<"Low", "No", "No", "Yes">> }
Buildings ==
    { (geometry :> x) @@ (VULNERABILITY_CLASSIFICATION :> p[1])
        @@ (ECA_LIQUEFACTION :> p[2]) @@ (ECA_POTENTIAL_SLIDE :> p[3])
        @@ (CONFIRMED_RETROFIT :> p[4]) : x \in Abscissas, p \in BuildingProfiles }
UrmFull(rows) ==
    Table(<<VULNERABILITY_CLASSIFICATION, ECA_LIQUEFACTION, ECA_POTENTIAL_SLIDE,
            CONFIRMED_RETROFIT, geometry>>, rows)
UrmTables ==
    UNION { {UrmFull(b), Project(UrmFull(b), <<geometry>>)} :
              b \in SeqsUpTo(Buildings, MaxBuildings) }
BasicUrm == UrmFull(<< CHOOSE b \in Buildings : b[geometry] = 16 /\ b[CONFIRMED_RETROFIT] = "Yes" >>)
BasicUrmLayers == {NoPath, NoFile, Layer(BasicUrm), Layer(Project(BasicUrm, <<geometry>>))}

PermitRow(num, x, d) ==
    (PermitNum :> num) @@ (Latitude :> Num(0)) @@ (Longitude :> x) @@ (Description :> d)
PermitShapes ==
    { <<Num(x), d>> : x \in Abscissas,
                      d \in {Str(<<"Seismic", " ", "Retrofit">>), Str(<<"kitchen">>)} }
        \cup { <<NaN, Str(<<"kitchen">>)>>, <<Num(16), pdNA>> }
PermitTable(shapes) ==
    Table(<<PermitNum, Description, Latitude, Longitude>>,
          [i \in 1..Len(shapes) |-> PermitRow(Num(i), shapes[i][1], shapes[i][2])])
PermitTables == { PermitTable(sh) : sh \in SeqsUpTo(PermitShapes, MaxPermits) }
BasicPermits == PermitTable(<< <<Num(16), Str(<<"Seismic", " ", "Retrofit">>)>> >>)
BasicPermitLayers == {NoPath, NoFile, Layer(BasicPermits)}

Args(census, cras, liq, slide, urm, perm, fmt) ==
    [seattle_census_data |-> census, cras |-> Layer(cras),
     liquefaction_areas |-> liq, slide_areas |-> slide,
     urm |-> urm, permits |-> perm, permits_file_fmt |-> fmt]

\* every combination of the optional layers being given, missing or there
PresenceRuns ==
    { Args(BasicCensus, c, l, s, u, p, "csv") :
        c \in CrasLayers, l \in BasicHazardLayers, s \in BasicHazardLayers,
        u \in BasicUrmLayers, p \in BasicPermitLayers }

\* every census layer and every file format
CensusRuns ==
    { Args(ce, c, Layer(BasicHazard), Layer(BasicHazard), Layer(BasicUrm), Layer(BasicPermits), f) :
        ce \in CensusTables, c \in CrasLayers \cup {CrasWithPop},
        f \in {"csv", "json", "xml"} }

\* every set of hazard zones, as either kind
HazardRuns ==
    { Args(BasicCensus, c, Layer(h), Layer(BasicHazard), NoPath, NoPath, "csv") :
        c \in CrasLayers, h \in HazardTables }
      \cup { Args(BasicCensus, c, NoPath, Layer(h), NoPath, Layer(BasicPermits), "csv") :
        c \in CrasLayers, h \in HazardTables }

\* every URM inventory
UrmRuns ==
    { Args(BasicCensus, c, Layer(BasicHazard), NoFile, Layer(u), NoPath, "csv") :
        c \in CrasLayers, u \in UrmTables }

\* every permits file, over disjoint and over overlapping hazard zones
PermitRuns ==
    { Args(BasicCensus, c, Layer(h), Layer(BasicHazard), NoPath, Layer(p), "csv") :
        c \in CrasLayers, p \in PermitTables,
        h \in {BasicHazard, ZoneTable(<<Strip(0, 32), Strip(0, 64)>>)} }

Runs == PresenceRuns \cup CensusRuns \cup HazardRuns \cup UrmRuns \cup PermitRuns

(***************************************************************************)
(* A run of compile_cra_stats, one action per block of its body.  A block  *)
(* that raises ends the run at "raised" with the exception in err.         *)
(***************************************************************************)
Init ==
    /\ inp \in Runs
    /\ pc = "census"
    /\ data = EmptyTable
    /\ permits = EmptyTable
    /\ urms_sjoined = EmptyTable
    /\ events = <<>>
    /\ err = ""
    /\ tpc = "idle" /\ descr = pdNA /\ variantOf = pdNA
    /\ normalized = pdNA /\ topic = "NA"

\* the outcome of a block: its table and the next block, or its exception
Step(result, next, evs) ==
    /\ events' = events \o evs
    /\ IF result.err = ""
       THEN data' = result.tbl /\ pc' = next /\ err' = ""
       ELSE data' = data /\ pc' = "raised" /\ err' = result.err

\* lines 227-252
AggregateCensus ==
    /\ pc = "census"
    /\ Step(aggregate_census(inp.seattle_census_data), "cras",
            <<"read census", "aggregate census">>)
    /\ UNCHANGED <<inp, permits, urms_sjoined>>
    /\ UNCHANGED topicVars

\* lines 254-265
MergeCensus ==
    /\ pc = "cras"
    /\ Step(Ok(merge_census(inp.cras.tbl, data)), "liquefaction",
            <<"read cras", "merge census">>)
    /\ UNCHANGED <<inp, permits, urms_sjoined>>
    /\ UNCHANGED topicVars

\* lines 267-272
LiquefactionOverlaps ==
    /\ pc = "liquefaction"
    /\ Step(hazard_columns(data, inp.liquefaction_areas, <<"liquefaction">>), "slide",
            IF Supplied(inp.liquefaction_areas)
            THEN <<"read liquefaction", "overlay liquefaction">> ELSE <<>>)
    /\ UNCHANGED <<inp, permits, urms_sjoined>>
    /\ UNCHANGED topicVars

\* lines 274-279
SlideOverlaps ==
    /\ pc = "slide"
    /\ Step(hazard_columns(data, inp.slide_areas, <<"slide">>), "urm",
            IF Supplied(inp.slide_areas)
            THEN <<"read slide", "overlay slide">> ELSE <<>>)
    /\ UNCHANGED <<inp, permits, urms_sjoined>>
    /\ UNCHANGED topicVars

\* lines 281-317
UrmCounts ==
    /\ pc = "urm"
    /\ Step(Ok(urm_columns(data, inp.urm)), "permits",
            IF Supplied(inp.urm) THEN <<"read urm", "sjoin urm">> ELSE <<>>)
    /\ urms_sjoined' = IF Supplied(inp.urm) THEN urm_sjoin(data, inp.urm.tbl)
                       ELSE urms_sjoined
    /\ UNCHANGED <<inp, permits>>
    /\ UNCHANGED topicVars

\* lines 319-325
PermitCounts ==
    /\ pc = "permits"
    /\ permits' = IF Supplied(inp.permits) THEN cleaned_permits(inp).tbl ELSE permits
    /\ Step(permit_columns(data, inp), "derive",
            IF Supplied(inp.permits) THEN <<"read permits", "sjoin permits">> ELSE <<>>)
    /\ UNCHANGED <<inp, urms_sjoined>>
    /\ UNCHANGED topicVars

\* lines 327-350
DerivedColumns ==
    /\ pc = "derive"
    /\ Step(Ok(derived_columns(data)), "finish", <<>>)
    /\ UNCHANGED <<inp, permits, urms_sjoined>>
    /\ UNCHANGED topicVars

\* lines 352-369
Return ==
    /\ pc = "finish"
    /\ Step(Ok(gen_alias_fix(data)), "done", <<>>)
    /\ UNCHANGED <<inp, permits, urms_sjoined>>
    /\ UNCHANGED topicVars

Next ==
    \/ AggregateCensus
    \/ MergeCensus
    \/ LiquefactionOverlaps
    \/ SlideOverlaps
    \/ UrmCounts
    \/ PermitCounts
    \/ DerivedColumns
    \/ Return

Spec == Init /\ [][Next]_vars

(***************************************************************************)
(* Properties of a run.                                                    *)
(***************************************************************************)
Returned == pc = "done"
Optional(args) == <<args.liquefaction_areas, args.slide_areas, args.urm, args.permits>>

\* C1: a run never raises because an optional layer (liquefaction, slide,
\* URM, permits) is absent, be its path None or the name of no file: no run
\* ends in the exception of reading a file that is not there or in the
\* KeyError of the permits lacking the CRA_NO column that the hazard layers
\* were needed for.
C1_NoAbortOnAbsentLayer ==
    ~(pc = "raised"
        /\ err \in {"DataSourceError: No such file or directory", "KeyError: CRA_NO"})

\* the run with the same census and reporting areas and no optional layer
WithoutOptionalLayers(args) ==
    [args EXCEPT !.liquefaction_areas = NoPath, !.slide_areas = NoPath,
                 !.urm = NoPath, !.permits = NoPath]

\* C2: the returned table has the same set of columns whether or not the
\* optional layers were supplied: the columns of a run are those of the run
\* on the same census and reporting areas without any optional layer.
C2_SameSchema ==
    Returned =>
        ColSet(data) = ColSet(compile_cra_stats(WithoutOptionalLayers(inp)).tbl)

\* the overlap columns of one hazard kind
ACRES(prefix) == upper(prefix \o <<"_acres">>)
SQ_MILES(prefix) == upper(prefix \o <<"_sq_miles">>)
RELATIVE(prefix) == upper(prefix \o <<"_relative">>)

\* the areas, in square metres, of the intersections of a reporting area
\* with the zones of a layer
OverlapAreas(g, zones) ==
    [j \in 1..Len(zones.rows) |->
        LET cut == intersection(g, zones.rows[j][geometry])
        IN IF cut = <<>> THEN Num(0) ELSE area(cut[1])]

\* the non-water reporting areas of the input layer
LandAreas(args) ==
    SelectSeq(args.cras.tbl.rows,
              LAMBDA r : ~HasCol(args.cras.tbl, WATER) \/ r[WATER] = Num(0))

\* the overlaps of the kind have been computed from a supplied layer
Overlaid(layer, after) == Supplied(layer) /\ pc \in after
AfterLiquefaction == {"slide", "urm", "permits", "derive", "finish", "done"}
AfterSlide == {"urm", "permits", "derive", "finish", "done"}

ZeroWhereNoOverlap(layer, prefix) ==
    /\ Len(data.rows) = Len(LandAreas(inp))
    /\ \A i \in 1..Len(data.rows) :
          FSum(OverlapAreas(data.rows[i][geometry], layer.tbl)) = Num(0) =>
              /\ data.rows[i][ACRES(prefix)] = Num(0)
              /\ data.rows[i][SQ_MILES(prefix)] = Num(0)
              /\ data.rows[i][RELATIVE(prefix)] = Num(0)

\* C3: after the overlaps of a hazard kind are computed, every reporting
\* area that intersects no zone of the kind is in the table with the acres,
\* square miles and relative fraction of the kind equal to the number 0.
C3_ZeroForNoOverlap ==
    /\ Overlaid(inp.liquefaction_areas, AfterLiquefaction) =>
           ZeroWhereNoOverlap(inp.liquefaction_areas, <<"liquefaction">>)
    /\ Overlaid(inp.slide_areas, AfterSlide) =>
           ZeroWhereNoOverlap(inp.slide_areas, <<"slide">>)

WithinOwnArea(prefix) ==
    \A i \in 1..Len(data.rows) :
        LET r == data.rows[i]
        IN /\ isna(r[ACRES(prefix)]) \/ FLe(r[ACRES(prefix)], r[AREA_ACRES])
           /\ isna(r[RELATIVE(prefix)])
                \/ (FLe(Num(0), r[RELATIVE(prefix)]) /\ FLe(r[RELATIVE(prefix)], Num(1)))

\* C4: for every reporting area and hazard kind the overlap area is at most
\* the area of the reporting area and the relative fraction lies in [0, 1],
\* also when zones of the kind overlap each other.
C4_OverlapWithinArea ==
    /\ Overlaid(inp.liquefaction_areas, AfterLiquefaction) => WithinOwnArea(<<"liquefaction">>)
    /\ Overlaid(inp.slide_areas, AfterSlide) => WithinOwnArea(<<"slide">>)

OverlapFormulas(layer, prefix) ==
    \A i \in 1..Len(data.rows) :
        LET r == data.rows[i]
            total == FSum(OverlapAreas(r[geometry], layer.tbl))
        IN /\ r[ACRES(prefix)] = DivSqMPerAcre(total)
           /\ r[SQ_MILES(prefix)] = DivSqMPerSqMile(total)
           /\ r[RELATIVE(prefix)] = FDiv(DivSqMPerAcre(total), r[AREA_ACRES])
           /\ (r[geometry] = Strip(0, 64) /\ layer.tbl = ZoneTable(<<Strip(0, 32)>>)) =>
                  r[RELATIVE(prefix)] = Frac(1, 2)

\* C5: for every reporting area A and the zones Z of a kind, the acres are
\* the sum over Z of area(A intersect z) divided by 4046.8564224, the square
\* miles the same sum divided by 2589988.110336, the relative fraction the
\* acres over the acres of A; an area twice the size of the single zone it
\* covers has the relative fraction 1/2.
C5_OverlapFormulas ==
    /\ Overlaid(inp.liquefaction_areas, AfterLiquefaction) =>
           OverlapFormulas(inp.liquefaction_areas, <<"liquefaction">>)
    /\ Overlaid(inp.slide_areas, AfterSlide) =>
           OverlapFormulas(inp.slide_areas, <<"slide">>)

AfterUrm == {"permits", "derive", "finish", "done"}
AfterPermits == {"derive", "finish", "done"}

\* the polygons of a table, in its order, that hold the point x
Holding(x, polys) ==
    SelectSeq([j \in 1..Len(polys.rows) |-> j],
              LAMBDA j : within(x, polys.rows[j][geometry]))

\* the reporting areas of the output: the non-water ones
LandTable(args) == Table(<<CRA_NO, geometry>>, LandAreas(args))

\* the sum of a count column over the reporting areas
TotalOf(col) == FSum([i \in 1..Len(data.rows) |-> data.rows[i][col]])

\* the rows of the permits file that survive the dropna
KeptPermits(args) ==
    SelectSeq(args.permits.tbl.rows, LAMBDA r :
        ~isna(r[PermitNum]) /\ ~isna(r[Latitude]) /\ ~isna(r[Longitude]))

\* C6: a point within more than one polygon of the layer it is joined to
\* gets exactly one row of the join, that of the first polygon holding it:
\* the join of the buildings has one row per building, the assignment of a
\* join of the permits never finds a repeated label, and no point is counted
\* twice in n_urm and BLDG_PERMIT_COUNT.
C6_OneRowPerPoint ==
    /\ (Supplied(inp.urm) /\ pc \in AfterUrm) =>
           /\ Len(urms_sjoined.rows) = Len(inp.urm.tbl.rows)
           /\ \A i \in 1..Len(inp.urm.tbl.rows) :
                  LET h == Holding(inp.urm.tbl.rows[i][geometry], LandTable(inp))
                  IN Len(h) > 1 =>
                        urms_sjoined.rows[i][CRA_NO] = LandTable(inp).rows[h[1]][CRA_NO]
           /\ FLe(TotalOf(n_urm), Num(Len(inp.urm.tbl.rows)))
    /\ (Supplied(inp.permits) /\ pc \in AfterPermits) =>
           FLe(TotalOf(BLDG_PERMIT_COUNT), Num(Len(KeptPermits(inp))))
    /\ err # "ValueError: cannot reindex on an axis with duplicate labels"

\* the number of points of a sequence of abscissas strictly inside a polygon
PointsInside(xs, g) == Len(SelectSeq(xs, LAMBDA x : within(x, g)))

\* every point is attributed as its position among the reporting areas
\* says, when it is inside at most one of them
AttributedByPosition(xs, joined) ==
    \A i \in 1..Len(xs) :
        LET h == Holding(xs[i], LandTable(inp))
        IN /\ Len(h) = 1 => joined.rows[i][CRA_NO] = LandTable(inp).rows[h[1]][CRA_NO]
           /\ Len(h) = 0 => isna(joined.rows[i][CRA_NO])

\* the points inside at most one reporting area each count once, for it
CountedByPosition(xs, col) ==
    (\A i \in 1..Len(xs) : Len(Holding(xs[i], LandTable(inp))) <= 1) =>
        \A k \in 1..Len(data.rows) :
            data.rows[k][col] = Num(PointsInside(xs, data.rows[k][geometry]))

UrmPoints == [i \in 1..Len(inp.urm.tbl.rows) |-> inp.urm.tbl.rows[i][geometry]]
PermitPoints == [i \in 1..Len(KeptPermits(inp)) |-> KeptPermits(inp)[i][Longitude][1]]
RetrofitPermitPoints ==
    LET r == SelectSeq(KeptPermits(inp), LAMBDA p : TopicOf(p[Description]) = "retrofit")
    IN [i \in 1..Len(r) |-> r[i][Longitude][1]]

\* C7: a building or permit strictly inside exactly one reporting area gets
\* the CRA_NO of that area and counts once, for that area only; one inside no
\* reporting area gets a null CRA_NO (and is_in_cra false, for a permit) and
\* counts for no area in n_urm, BLDG_PERMIT_COUNT and RETROFIT_PERMIT_COUNT.
C7_AttributedToItsArea ==
    /\ (Supplied(inp.urm) /\ pc \in AfterUrm /\ Len(urms_sjoined.rows) = Len(UrmPoints)) =>
           /\ AttributedByPosition(UrmPoints, urms_sjoined)
           /\ CountedByPosition(UrmPoints, n_urm)
    /\ (Supplied(inp.permits) /\ pc \in AfterPermits) =>
           /\ AttributedByPosition(PermitPoints, permits)
           /\ \A i \in 1..Len(permits.rows) :
                  permits.rows[i][is_in_cra] = ~isna(permits.rows[i][CRA_NO])
           /\ CountedByPosition(PermitPoints, BLDG_PERMIT_COUNT)
           /\ CountedByPosition(RetrofitPermitPoints, RETROFIT_PERMIT_COUNT)

\* the merge with the census aggregate is done
AfterMerge == {"liquefaction", "slide", "urm", "permits", "derive", "finish", "done"}
Merged == pc \in AfterMerge \/ (pc = "raised" /\ HasCol(data, geometry))

\* C8: from the merge with the census aggregate on, through every later
\* join and in the table returned, the table has exactly the non-water
\* reporting areas of the input layer, each once and in the order of the
\* layer.
C8_OneRowPerLandArea ==
    Merged => Column(data, CRA_NO) = [i \in 1..Len(LandAreas(inp)) |-> LandAreas(inp)[i][CRA_NO]]

\* a returned table of a run on a layer with a water area, joined with the
\* census, both kinds of hazard zones, buildings and permits, one of them
\* counted
C8_Witness ==
    /\ Returned
    /\ Len(data.rows) < Len(inp.cras.tbl.rows)
    /\ \A k \in 1..4 : Supplied(Optional(inp)[k])
    /\ \E i \in 1..Len(data.rows) : data.rows[i][BLDG_PERMIT_COUNT] = Num(1)

\* a number of the unit interval
InUnitInterval(v) == ~isna(v) /\ FLe(Num(0), v) /\ FLe(v, Num(1))

\* the values the two indices are scaled from, nulls taken as 0
RawRisk(r) == fillna(r[risk_score], Num(0))
RawMitigation(r) ==
    FAdd(fillna(r[retrofit_rate_per_10k], Num(0)), fillna(r[urm_retrofit_share], Num(0)))

\* C11: in the returned table risk_index and mitigation_index of every row
\* are numbers of [0, 1], never NaN, and an index whose raw value (nulls
\* taken as 0) is the same in every row is 0 in every row.
C11_IndicesInUnitInterval ==
    Returned =>
        /\ \A i \in 1..Len(data.rows) :
              /\ InUnitInterval(data.rows[i][risk_index])
              /\ InUnitInterval(data.rows[i][mitigation_index])
        /\ (\A i, j \in 1..Len(data.rows) : RawRisk(data.rows[i]) = RawRisk(data.rows[j])) =>
              \A i \in 1..Len(data.rows) : data.rows[i][risk_index] = Num(0)
        /\ (\A i, j \in 1..Len(data.rows) :
                RawMitigation(data.rows[i]) = RawMitigation(data.rows[j])) =>
              \A i \in 1..Len(data.rows) : data.rows[i][mitigation_index] = Num(0)

\* a returned table with a risk index strictly between 0 and 1, a null raw
\* input, and a mitigation index whose raw value is the same in all rows
C11_Witness ==
    /\ Returned
    /\ Len(data.rows) > 1
    /\ \E i \in 1..Len(data.rows) : data.rows[i][risk_index] \notin {Num(0), Num(1)}
    /\ \E i \in 1..Len(data.rows) : isna(data.rows[i][urm_retrofit_share])
    /\ \A i \in 1..Len(data.rows) : data.rows[i][mitigation_index] = Num(0)

\* C12: in every returned row retrofit_share_permits is
\* RETROFIT_PERMIT_COUNT / BLDG_PERMIT_COUNT when BLDG_PERMIT_COUNT > 0 and
\* null (the division of the row is not an error and not 0) when
\* BLDG_PERMIT_COUNT = 0, also when there is no permits layer.
C12_ShareNullWithoutPermits ==
    Returned =>
        \A i \in 1..Len(data.rows) :
            LET r == data.rows[i]
            IN /\ IsFinite(r[BLDG_PERMIT_COUNT]) /\ FLe(Num(0), r[BLDG_PERMIT_COUNT])
               /\ r[BLDG_PERMIT_COUNT] # Num(0) =>
                      r[retrofit_share_permits]
                          = FDiv(r[RETROFIT_PERMIT_COUNT], r[BLDG_PERMIT_COUNT])
               /\ r[BLDG_PERMIT_COUNT] = Num(0) => isna(r[retrofit_share_permits])

\* a returned table of a run with permits: an area with two permits, one of
\* them a retrofit, and an area with none
C12_Witness ==
    /\ Returned
    /\ Supplied(inp.permits)
    /\ \E i \in 1..Len(data.rows) :
          /\ data.rows[i][BLDG_PERMIT_COUNT] = Num(2)
          /\ data.rows[i][retrofit_share_permits] = Frac(1, 2)
    /\ \E i \in 1..Len(data.rows) : data.rows[i][BLDG_PERMIT_COUNT] = Num(0)

\* C13: in every returned row retrofit_rate_per_10k is
\* RETROFIT_PERMIT_COUNT / population * 10000 when population is a number
\* other than 0, and null when population is 0 or missing; it is never
\* infinite.
C13_RateNullWithoutPopulation ==
    Returned =>
        \A i \in 1..Len(data.rows) :
            LET r == data.rows[i]
                rate == r[retrofit_rate_per_10k]
            IN /\ (~isna(r[population]) /\ r[population] # Num(0)) =>
                      rate = FMul(FDiv(r[RETROFIT_PERMIT_COUNT], r[population]), Num(10000))
               /\ (isna(r[population]) \/ r[population] = Num(0)) => isna(rate)
               /\ isna(rate) \/ IsFinite(rate)

\* a returned table with a retrofit permit in an area of population 0, an
\* area without census block and an area with inhabitants
C13_Witness ==
    /\ Returned
    /\ \E i \in 1..Len(data.rows) :
          /\ data.rows[i][population] = Num(0)
          /\ data.rows[i][RETROFIT_PERMIT_COUNT] = Num(1)
    /\ \E i \in 1..Len(data.rows) : isna(data.rows[i][population])
    /\ \E i \in 1..Len(data.rows) :
          IsFinite(data.rows[i][population]) /\ data.rows[i][population] # Num(0)

\* the weight of a vulnerability class
ClassWeight(class) ==
    IF class = "Medium" THEN 1 ELSE IF class = "High" THEN 2
    ELSE IF class = "Critical" THEN 3 ELSE 0

\* the buildings the join attributes to the reporting area of number no
AttributedTo(no) == SelectSeq(urms_sjoined.rows, LAMBDA b : b[CRA_NO] = no)

\* the number of them flagged 'Yes' in a column, 0 when the inventory has
\* no such column
Flagged(bs, col) ==
    IF HasCol(urms_sjoined, col) THEN Len(SelectSeq(bs, LAMBDA b : b[col] = "Yes")) ELSE 0

RECURSIVE WeightSum(_)
WeightSum(bs) ==
    IF bs = <<>> \/ ~HasCol(urms_sjoined, VULNERABILITY_CLASSIFICATION) THEN 0
    ELSE ClassWeight(Head(bs)[VULNERABILITY_CLASSIFICATION]) + WeightSum(Tail(bs))

\* C14: the risk_score of every reporting area is the sum of the weights
\* (Medium 1, High 2, Critical 3, anything else 0) of the buildings
\* attributed to it, plus half the number of them flagged in a liquefaction
\* zone, plus half the number of them flagged in a slide zone; it is 0 for an
\* area without building and when there is no URM inventory.
C14_RiskScore ==
    pc \in AfterUrm =>
        \A i \in 1..Len(data.rows) :
            LET bs == IF Supplied(inp.urm) THEN AttributedTo(data.rows[i][CRA_NO]) ELSE <<>>
            IN data.rows[i][risk_score]
                 = Frac(2 * WeightSum(bs) + Flagged(bs, ECA_LIQUEFACTION)
                          + Flagged(bs, ECA_POTENTIAL_SLIDE), 2)

\* an area with two buildings of different classes, one flagged in a
\* liquefaction zone only, and an area with no building
C14_Witness ==
    /\ Returned
    /\ HasCol(urms_sjoined, VULNERABILITY_CLASSIFICATION)
    /\ \E i \in 1..Len(data.rows) :
          LET bs == AttributedTo(data.rows[i][CRA_NO])
          IN /\ Len(bs) = 2
             /\ bs[1][VULNERABILITY_CLASSIFICATION] # bs[2][VULNERABILITY_CLASSIFICATION]
             /\ Flagged(bs, ECA_LIQUEFACTION) = 1
             /\ Flagged(bs, ECA_POTENTIAL_SLIDE) = 0
    /\ \E i \in 1..Len(data.rows) : data.rows[i][n_urm] = Num(0)

\* the census layer of the run
Census == inp.seattle_census_data

\* the greatest, in the order of strings, of the POP20* columns of the census
GreatestPop ==
    CHOOSE c \in Range(PopColumns(Census.cols)) :
        \A d \in Range(PopColumns(Census.cols)) : d = c \/ StrLess(d, c)

\* the sum of a census column over the blocks of a reporting area, missing
\* when the area has no block
BlockSum(no, col) ==
    LET blocks == SelectSeq(Census.rows, LAMBDA b : b[CRA_NO] = no)
    IN IF blocks = <<>> THEN NaN
       ELSE FSum([k \in 1..Len(blocks) |-> blocks[k][col]])

\* C15: when the census has POP20* columns, the population of every
\* returned row is the sum over the census blocks of the area of the greatest
\* of them, and the detection of the population column before the rates
\* finds the column the detection before the aggregation chose, whatever
\* POP20* columns the census and the reporting areas carry.
C15_PopulationFromGreatestColumn ==
    (HasCol(Census, CRA_NO) /\ PopColumns(Census.cols) # <<>>) =>
        /\ pc = "derive" => pop_col(data.cols) = GreatestPop
        /\ Returned =>
              \A i \in 1..Len(data.rows) :
                  data.rows[i][population] = BlockSum(data.rows[i][CRA_NO], GreatestPop)

\* the census aggregation raised: the run ended before it built a table
RaisedInCensus == pc = "raised" /\ data = EmptyTable

\* C16: when the census has no POP20* column (and so none of the preferred
\* names POP2025, POP2024, POP2023) the run does not abort for it; it returns
\* with population missing and retrofit_rate_per_10k null in every row.
C16_NoPopulationColumn ==
    (HasCol(Census, CRA_NO) /\ PopColumns(Census.cols) = <<>>) =>
        /\ ~RaisedInCensus
        /\ Returned =>
              \A i \in 1..Len(data.rows) :
                  /\ isna(data.rows[i][population])
                  /\ isna(data.rows[i][retrofit_rate_per_10k])

\* the point is inside a water-flagged reporting area and inside no other
InWaterOnly(x) ==
    /\ Len(Holding(x, LandTable(inp))) = 0
    /\ Len(Holding(x, Table(<<CRA_NO, geometry>>, inp.cras.tbl.rows))) > 0

\* C20: water-flagged reporting areas (WATER # 0) are excluded before every
\* computation on reporting areas: the table carries the land areas only,
\* and a building or permit inside a water-flagged polygon only is
\* attributed to no reporting area (null CRA_NO, is_in_cra false).
C20_WaterExcluded ==
    /\ pc \in AfterMerge => Len(data.rows) = Len(LandAreas(inp))
    /\ (Supplied(inp.urm) /\ pc \in AfterUrm /\ Len(urms_sjoined.rows) = Len(UrmPoints)) =>
           \A i \in 1..Len(UrmPoints) :
               InWaterOnly(UrmPoints[i]) => isna(urms_sjoined.rows[i][CRA_NO])
    /\ (Supplied(inp.permits) /\ pc \in AfterPermits) =>
           \A i \in 1..Len(PermitPoints) :
               InWaterOnly(PermitPoints[i]) =>
                   /\ isna(permits.rows[i][CRA_NO])
                   /\ ~permits.rows[i][is_in_cra]

\* the events of a run that read an input layer
ReadEvents ==
    {"read census", "read cras", "read liquefaction", "read slide", "read urm", "read permits"}

\* C21: in every run the reads of the input layers (census, reporting
\* areas, hazard zones, URM inventory, permits) are all done before the
\* first join, overlay or aggregation: no layer is read after one of those
\* has been performed.
C21_ReadsBeforeJoins ==
    \A i, j \in 1..Len(events) :
        (i < j /\ events[i] \notin ReadEvents) => events[j] \notin ReadEvents

\* a count: a whole number, zero or more
IsCount(v) == v[2] = 1 /\ v[1] >= 0

\* C22: in every row, once the permit counts are in the table,
\* BLDG_PERMIT_COUNT and RETROFIT_PERMIT_COUNT are non-negative integers
\* with RETROFIT_PERMIT_COUNT <= BLDG_PERMIT_COUNT, retrofit_share_permits
\* is in [0, 1] when it is not null, and the sum of BLDG_PERMIT_COUNT over
\* the rows does not exceed the number of cleaned permit rows.
C22_PermitCountsConsistent ==
    pc \in AfterPermits =>
        /\ \A k \in 1..Len(data.rows) :
               /\ IsCount(data.rows[k][BLDG_PERMIT_COUNT])
               /\ IsCount(data.rows[k][RETROFIT_PERMIT_COUNT])
               /\ FLe(data.rows[k][RETROFIT_PERMIT_COUNT], data.rows[k][BLDG_PERMIT_COUNT])
               /\ (HasCol(data, retrofit_share_permits)
                      /\ ~isna(data.rows[k][retrofit_share_permits])) =>
                      /\ FLe(Num(0), data.rows[k][retrofit_share_permits])
                      /\ FLe(data.rows[k][retrofit_share_permits], Num(1))
        /\ FLe(TotalOf(BLDG_PERMIT_COUNT), Num(Len(permits.rows)))

\* a returned table with a row of two permits, one of them a retrofit
C22_Witness ==
    /\ Returned
    /\ \E k \in 1..Len(data.rows) :
           /\ data.rows[k][BLDG_PERMIT_COUNT] = Num(2)
           /\ data.rows[k][RETROFIT_PERMIT_COUNT] = Num(1)
           /\ data.rows[k][retrofit_share_permits] = Frac(1, 2)

(***************************************************************************)
(* A call of _find_eca_cra_overlaps on its own: the validation of the      *)
(* prefix, then the overlay and the merge.  The reporting areas are a      *)
(* table of compile_cra_stats after the census merge, which has none of    *)
(* the columns the prefix names.                                           *)
(***************************************************************************)
Prefixes ==
    { <<>>, <<"area">>, <<"AREA">>, <<"Area">>, <<"liquefaction">>, <<"Liquefaction">>,
      <<"slide">>, <<"eca_overlap">>, <<"area", "slide">> }

InitOverlaps ==
    /\ \E c \in CrasLayers, z \in HazardTables, prefix \in Prefixes :
          inp = [cras |-> merge_census(c, aggregate_census(BasicCensus).tbl),
                 ecas |-> z, prefix |-> prefix]
    /\ pc = "call"
    /\ data = EmptyTable
    /\ permits = EmptyTable
    /\ urms_sjoined = EmptyTable
    /\ events = <<>>
    /\ err = ""
    /\ tpc = "idle" /\ descr = pdNA /\ variantOf = pdNA
    /\ normalized = pdNA /\ topic = "NA"

\* lines 373-376
ValidatePrefix ==
    /\ pc = "call"
    /\ err' = find_eca_cra_overlaps(inp.cras, inp.ecas, inp.prefix).err
    /\ pc' = IF err' # "" THEN "raised" ELSE "validated"
    /\ UNCHANGED <<inp, data, permits, urms_sjoined, events>>
    /\ UNCHANGED topicVars

\* lines 377-386
ComputeOverlaps ==
    /\ pc = "validated"
    /\ data' = find_eca_cra_overlaps(inp.cras, inp.ecas, inp.prefix).tbl
    /\ events' = <<"to_crs", "overlay", "sum per area", "merge", "to_crs">>
    /\ pc' = "returned"
    /\ UNCHANGED <<inp, permits, urms_sjoined, err>>
    /\ UNCHANGED topicVars

NextOverlaps == ValidatePrefix \/ ComputeOverlaps

SpecOverlaps == InitOverlaps /\ [][NextOverlaps]_vars

\* the prefix is empty or is AREA in some letter case
Refused(prefix) == prefix = <<>> \/ lower(prefix) = <<"area">>

\* C17: a call with an empty prefix or with a prefix equal to AREA in any
\* letter case raises before anything is reprojected, overlaid or merged and
\* returns no table; a call with any other prefix is not refused and adds
\* exactly the three columns <PREFIX>_ACRES, <PREFIX>_SQ_MILES and
\* <PREFIX>_RELATIVE, spelled in capitals.
C17_PrefixValidated ==
    /\ (pc # "call" /\ Refused(inp.prefix)) =>
           pc = "raised" /\ err # "" /\ events = <<>> /\ data = EmptyTable
    /\ (pc # "call" /\ ~Refused(inp.prefix)) => pc # "raised"
    /\ pc = "returned" =>
           /\ ColSet(data) \ ColSet(inp.cras)
                 = {upper(inp.prefix) \o s : s \in {<<"_ACRES">>, <<"_SQ_MILES">>, <<"_RELATIVE">>}}
           /\ ColSet(inp.cras) \subseteq ColSet(data)

\* a call with the prefix Area has been refused
C17_Witness == pc = "raised" /\ inp.prefix = <<"Area">>

(***************************************************************************)
(* A call of clean_permits_data on its own, with its arguments for saving. *)
(***************************************************************************)
\* lines 140-147: what the call writes
save_permits(save, save_fmt) ==
    IF ~save THEN <<>>
    ELSE CASE save_fmt = "pickle" -> <<"to_pickle">>
           [] save_fmt = "csv" -> <<"to_csv">>
           [] save_fmt = "json" -> <<"to_json">>
           [] OTHER -> <<>>

InitClean ==
    /\ \E raw \in PermitTables, fmt \in {"csv", "json", "xml", "pickle"},
          save \in BOOLEAN, save_fmt \in {"pickle", "csv", "json", "parquet"} :
          inp = [raw |-> raw, data_file_fmt |-> fmt, save |-> save, save_fmt |-> save_fmt]
    /\ pc = "call"
    /\ data = EmptyTable
    /\ permits = EmptyTable
    /\ urms_sjoined = EmptyTable
    /\ events = <<>>
    /\ err = ""
    /\ tpc = "idle" /\ descr = pdNA /\ variantOf = pdNA
    /\ normalized = pdNA /\ topic = "NA"

\* lines 37-137, the hazard and reporting-area paths left at None
ReadAndClean ==
    /\ pc = "call"
    /\ LET cleaned == clean_permits_data(inp.raw, inp.data_file_fmt, NoPath, NoPath, NoPath)
       IN /\ err' = cleaned.err
          /\ permits' = cleaned.tbl
          /\ pc' = IF cleaned.err # "" THEN "raised" ELSE "cleaned"
          /\ events' = IF inp.data_file_fmt \in {"csv", "json"} THEN <<"read">> ELSE <<>>
    /\ UNCHANGED <<inp, data, urms_sjoined>>
    /\ UNCHANGED topicVars

\* lines 139-149
SaveAndReturn ==
    /\ pc = "cleaned"
    /\ events' = events \o save_permits(inp.save, inp.save_fmt)
    /\ pc' = "returned"
    /\ UNCHANGED <<inp, data, permits, urms_sjoined, err>>
    /\ UNCHANGED topicVars

NextClean == ReadAndClean \/ SaveAndReturn

SpecClean == InitClean /\ [][NextClean]_vars

\* C18: a call with data_file_fmt other than csv and json raises before it
\* reads anything, and a call with save = True and save_fmt other than
\* pickle, csv and json does not return normally.
C18_UnsupportedFormatFails ==
    /\ (pc # "call" /\ inp.data_file_fmt \notin {"csv", "json"}) =>
           pc = "raised" /\ err # "" /\ events = <<>>
    /\ (inp.save /\ inp.save_fmt \notin {"pickle", "csv", "json"}) => pc # "returned"

(***************************************************************************)
(* _ensure_crs.  A layer is its declared coordinate system and the         *)
(* coordinates of its features; NoCrs is a layer whose crs is None.  A     *)
(* position on the ground has a different coordinate in each system: the   *)
(* coordinate is the position times the system's units per position.       *)
(***************************************************************************)
MaxFeatures == 2

NoCrs == "None"
NoLayer == [crs |-> NoCrs, geometry |-> <<>>, null |-> TRUE]
KnownCrs == {"EPSG:4326", "EPSG:26910", "EPSG:2926"}
UnitsPerPosition == [k \in KnownCrs |->
    CASE k = "EPSG:4326" -> 1 [] k = "EPSG:26910" -> 2 [] k = "EPSG:2926" -> 6]

\* pyproj resolves the name of a coordinate system, or raises CRSError
Resolvable(crs) == crs \in KnownCrs

transform(x, from, to) == (x * UnitsPerPosition[to]) \div UnitsPerPosition[from]

\* GeoDataFrame.set_crs on a layer without a crs: labels, coordinates kept
set_crs(gdf, crs) ==
    IF Resolvable(crs) THEN Ok([gdf EXCEPT !.crs = crs]) ELSE Raise("CRSError")

\* GeoDataFrame.to_crs: every coordinate transformed, then labelled
to_crs(gdf, crs) ==
    IF Resolvable(crs)
    THEN Ok([gdf EXCEPT !.crs = crs,
                        !.geometry = [i \in DOMAIN gdf.geometry |->
                                         transform(gdf.geometry[i], gdf.crs, crs)]])
    ELSE Raise("CRSError")

\* lines 13-30
ensure_crs(gdf, target_crs) ==
    IF gdf.null THEN gdf
    ELSE IF gdf.crs = NoCrs
         THEN IF set_crs(gdf, target_crs).err = "" THEN set_crs(gdf, target_crs).tbl ELSE gdf
    ELSE IF gdf.crs = target_crs THEN gdf
    ELSE IF to_crs(gdf, target_crs).err = "" THEN to_crs(gdf, target_crs).tbl ELSE gdf

Positions == {16, 48}
TargetCrs == KnownCrs \cup {"EPSG:0"}
CrsLayers ==
    {NoLayer} \cup
    { [crs |-> k, geometry |-> [i \in DOMAIN ps |->
                                  ps[i] * (IF k = NoCrs THEN 1 ELSE UnitsPerPosition[k])],
       null |-> FALSE] :
      k \in KnownCrs \cup {NoCrs}, ps \in SeqsUpTo(Positions, MaxFeatures) }

InitCrs ==
    /\ \E layer \in CrsLayers, target_crs \in TargetCrs :
          inp = [layer |-> layer, target_crs |-> target_crs]
    /\ pc = "call"
    /\ data = NoLayer
    /\ permits = EmptyTable
    /\ urms_sjoined = EmptyTable
    /\ events = <<>>
    /\ err = ""
    /\ tpc = "idle" /\ descr = pdNA /\ variantOf = pdNA
    /\ normalized = pdNA /\ topic = "NA"

ReturnCrs(branch) ==
    /\ data' = ensure_crs(inp.layer, inp.target_crs)
    /\ events' = <<branch>>
    /\ pc' = "returned"
    /\ UNCHANGED <<inp, permits, urms_sjoined, err>>
    /\ UNCHANGED topicVars

\* lines 13-14
ReturnNone == pc = "call" /\ inp.layer.null /\ ReturnCrs("none")

\* lines 16-20
TagUnlabelled ==
    pc = "call" /\ ~inp.layer.null /\ inp.layer.crs = NoCrs /\ ReturnCrs("set_crs")

\* lines 22-24
ReturnAsIs ==
    /\ pc = "call" /\ ~inp.layer.null
    /\ inp.layer.crs # NoCrs /\ inp.layer.crs = inp.target_crs
    /\ ReturnCrs("same")

\* lines 27-30
Reproject ==
    /\ pc = "call" /\ ~inp.layer.null
    /\ inp.layer.crs # NoCrs /\ inp.layer.crs # inp.target_crs
    /\ ReturnCrs("to_crs")

NextCrs == ReturnNone \/ TagUnlabelled \/ ReturnAsIs \/ Reproject

SpecCrs == InitCrs /\ [][NextCrs]_vars

\* C19: _ensure_crs applied to a non-null layer returns a layer declared in
\* target_crs: an undeclared layer is tagged with its coordinates kept, a
\* layer already in target_crs comes back unchanged, a layer declared in
\* another system has its coordinates transformed; no returned layer is
\* still labelled with a system other than target_crs.
C19_ReturnedInTargetCrs ==
    (pc = "returned" /\ ~inp.layer.null) =>
        /\ data.crs = inp.target_crs
        /\ inp.layer.crs = NoCrs => data.geometry = inp.layer.geometry
        /\ inp.layer.crs = inp.target_crs => data = inp.layer
        /\ inp.layer.crs \notin {NoCrs, inp.target_crs} =>
               data.geometry = [i \in DOMAIN inp.layer.geometry |->
                   transform(inp.layer.geometry[i], inp.layer.crs, inp.target_crs)]

(***************************************************************************)
(* Descriptions the classifier is run on: up to MaxChunks pieces, each a   *)
(* phrase of one of the two lists or a fragment, joined by a space or by   *)
(* nothing; then re-spelled in another letter case and with other          *)
(* whitespace runs.                                                        *)
(***************************************************************************)
Chunks ==
    Range(RETROFIT_PHRASES) \cup Range(DAMAGE_PHRASES)
        \cup {<<"x">>, <<"seismic">>, <<"retrofit">>, <<"damage">>}

Seps == {<<>>, <<" ">>}

BaseDescriptions ==
    UNION { { Flatten([i \in 1..k |-> (IF i = 1 THEN <<>> ELSE sep[i]) \o chunk[i]]) :
                sep \in [2..k -> Seps], chunk \in [1..k -> Chunks] } : k \in 0..MaxChunks }

\* the three descriptions of the end-to-end scenario; "x" stands for the
\* words that occur in no phrase
Examples ==
    { <<"Seismic", " ", "Retrofit", " ", "x", " ", "home">>,
      <<"x", " ", "earthquake", " ", "damage", " ", "x">>,
      <<"kitchen", " ", "x">> }

CaseModes == {"asis", "upper", "title"}
SpaceModes == {"asis", "tab", "double", "padded"}
Modes == { <<"asis", "asis">>, <<"upper", "tab">>, <<"title", "double">>,
           <<"asis", "padded">> }

ReCase(s, mode) ==
    [i \in 1..Len(s) |->
        CASE mode = "upper" -> UpperTok(s[i])
          [] mode = "title" -> TitleTok(s[i])
          [] OTHER -> s[i]]

ReSpace(s, mode) ==
    CASE mode = "tab" ->
            [i \in 1..Len(s) |-> IF s[i] = " " THEN "<TAB>" ELSE s[i]]
      [] mode = "double" ->
            Flatten([i \in 1..Len(s) |->
                        IF s[i] = " " THEN <<"<NL>", " ">> ELSE <<s[i]>>])
      [] mode = "padded" -> <<"<NL>">> \o s \o <<" ", "<TAB>">>
      [] OTHER -> s

Vary(s, mode) == ReSpace(ReCase(s, mode[1]), mode[2])

InitTopic ==
    /\ \/ \E b \in BaseDescriptions \cup Examples : \E m \in Modes :
            /\ variantOf = Str(b)
            /\ descr = Str(Vary(b, m))
       \/ \E d \in {pdNA, floatNaN} : variantOf = d /\ descr = d
    /\ tpc = "start"
    /\ normalized = pdNA
    /\ topic = "NA"
    /\ pc = "idle" /\ inp = <<>> /\ data = <<>> /\ permits = <<>>
    /\ urms_sjoined = <<>> /\ events = <<>> /\ err = ""

\* data['Description'].apply(normalize_desc)
NormalizeDesc ==
    /\ tpc = "start"
    /\ normalized' = normalize_desc(descr)
    /\ tpc' = "normalized"
    /\ UNCHANGED <<descr, variantOf, topic>>
    /\ UNCHANGED pipeVars

\* .apply(categorize_topic)
CategorizeTopic ==
    /\ tpc = "normalized"
    /\ topic' = categorize_topic(normalized)
    /\ tpc' = "done"
    /\ UNCHANGED <<descr, variantOf, normalized>>
    /\ UNCHANGED pipeVars

NextTopic == NormalizeDesc \/ CategorizeTopic

SpecTopic == InitTopic /\ [][NextTopic]_vars

HasPhrase(s, phrases) == \E i \in 1..Len(phrases) : Contains(s, phrases[i])

\* C9: the topic of a description is retrofit when its normalized text holds
\* a retrofit phrase (a damage phrase or not), damage when it holds a damage
\* phrase and no retrofit phrase, and unknown otherwise, a description that is
\* no string included; the three descriptions of the scenario get retrofit,
\* damage and unknown.
C9_TopicByPhrase ==
    tpc = "done" =>
        /\ ~isinstance_str(descr) => topic = "NA"
        /\ isinstance_str(descr) =>
               /\ isinstance_str(normalized)
               /\ topic = IF HasPhrase(normalized.v, RETROFIT_PHRASES) THEN "retrofit"
                          ELSE IF HasPhrase(normalized.v, DAMAGE_PHRASES) THEN "damage"
                          ELSE "NA"
        /\ variantOf = Str(<<"Seismic", " ", "Retrofit", " ", "x", " ", "home">>)
               => topic = "retrofit"
        /\ variantOf = Str(<<"x", " ", "earthquake", " ", "damage", " ", "x">>)
               => topic = "damage"
        /\ variantOf = Str(<<"kitchen", " ", "x">>) => topic = "NA"

\* a description with a retrofit phrase and a damage phrase has been classified
C9_Witness ==
    /\ tpc = "done"
    /\ isinstance_str(normalized)
    /\ HasPhrase(normalized.v, RETROFIT_PHRASES)
    /\ HasPhrase(normalized.v, DAMAGE_PHRASES)
    /\ topic = "retrofit"

\* C10: normalize_desc is idempotent, classifying the normalized text gives
\* the topic of the text itself, and a description gets the topic of every
\* description it differs from only in letter case and whitespace runs.
C10_NormalizationInvariant ==
    tpc = "done" =>
        /\ normalize_desc(normalized) = normalized
        /\ TopicOf(normalized) = topic
        /\ topic = TopicOf(variantOf)

\* a description with a damage phrase, spelled in another letter case and
\* with longer whitespace runs than the description it varies, has been
\* classified
C10_Witness ==
    /\ tpc = "done"
    /\ isinstance_str(descr)
    /\ Len(descr.v) > Len(variantOf.v)
    /\ lower(descr.v) # descr.v
    /\ descr # normalized
    /\ topic = "damage"

====
